---- MODULE Spec2Model ----
(***************************************************************************)
(* Model of the Pulse STT WebSocket proxy of the cookbook repository.      *)
(*                                                                         *)
(* Two copies of the proxy exist in the sources:                           *)
(*   "js"  ws-proxy.js, kept in demo-app/src/app/api/transcribe/route.ts   *)
(*         lines 70-200                                                    *)
(*   "ts"  the ws-server module kept in unnamed/part_003 lines 1-134       *)
(* They share the handler structure and differ in the text of the events   *)
(* they build and in how an upstream frame is relayed.  The variable       *)
(* `variant` selects the copy that is running.                             *)
(*                                                                         *)
(* Every action is one event handler of wss.on('connection'), run to       *)
(* completion (Node.js runs a handler without interleaving).               *)
(***************************************************************************)
EXTENDS Integers, Sequences, FiniteSets, TLC

\* Bounds of the model ---------------------------------------------------
Sessions == {1, 2}       \* concurrently accepted client connections
MaxMsgs == 2             \* frames received from clients and from upstream, all sessions together
MaxLen == 3              \* samples in one input buffer of the audio encoder
SampleUnit == 2          \* resolution of a sample: the integer SampleUnit stands for 1.0
MaxConnects == 2         \* connect() calls on one PulseStreamingClient
MaxSends == 2            \* frames one PulseStreamingClient transmits outside streamFile
MaxChunks == 2           \* audio chunks in the file given to streamFile
MaxTries == 4            \* largest maxRetries passed to transcribeWithRetry besides the default
MaxStarts == 2           \* startRecording calls in the demo app
MaxRequests == 2         \* runAnalysis calls of the emotion analyzer that reach fetch

Variants == {"js", "ts"}

VARIABLES
    variant,           \* which copy of the proxy runs
    clientState,       \* clientWs.readyState per session ("NONE" = not yet accepted)
    pulseState,        \* pulseWs.readyState per session ("NONE" = not yet constructed)
    pulseOpened,       \* number of `new WebSocket(pulseUrl, ...)` executed per session
    pulseErrors,       \* number of 'error' events pulseWs emitted per session
    pulseCloses,       \* number of 'close' events pulseWs emitted per session
    clientSent,        \* frames delivered to clientWs.on('message'), in order
    upstreamReceived,  \* data handed to pulseWs.send, in order
    pulseSent,         \* frames delivered to pulseWs.on('message'), in order
    clientOut,         \* data transmitted by clientWs.send, in order
    apiKey,            \* API_KEY = process.env.SMALLEST_API_KEY
    server,            \* "starting", "listening" (server.listen) or "exited" (process.exit)
    clientQuery,       \* query parameters of the client's connection request per session
    pulseHandshake,    \* parameters and headers of `new WebSocket(pulseUrl, ...)` per session
    encRate,           \* audioContext.sampleRate of the capture device
    encInput,          \* e.inputBuffer.getChannelData(0)
    encOutput,         \* outputData handed to ws.send
    encWsOpen,         \* ws.readyState === WebSocket.OPEN in onaudioprocess
    encDone,           \* onaudioprocess has run
    scWs,              \* PulseStreamingClient: this.ws (0 = null, k = the k-th socket made)
    scSock,            \* readyState of each socket connect() made ("NONE" = not yet made)
    scPromise,         \* state of the promise each connect() returned
    scSent,            \* frames the sockets transmitted, in order, as <<socket, frame>>
    scCloseCalls,      \* number of ws.close() calls per socket
    scLastOp,          \* the method or event that ran last, and whether it threw
    sfPc,              \* streamFile: position in the method body
    sfI,               \* streamFile: loop variable i
    sfFile,            \* streamFile: size in bytes of the file at filePath
    rtMaxRetries,      \* transcribeWithRetry: the argument maxRetries
    rtAttempt,         \* transcribeWithRetry: loop variable attempt
    rtPc,              \* transcribeWithRetry: position in the function body
    rtCalls,           \* outcomes of the transcribeAudioFile calls made, in order
    rtDelays,          \* the setTimeout delays awaited, in order
    rtLastError,       \* transcribeWithRetry: lastError
    rtOutcome,         \* what transcribeWithRetry returned or threw
    ptKey,             \* POST /api/transcribe: process.env.SMALLEST_API_KEY
    ptForm,            \* the form data of the request (Unreadable: request.formData() throws)
    ptPc,              \* position in the body of POST
    ptFetches,         \* the fetch calls made to the vendor API, in order
    ptVendor,          \* what the vendor API answered
    ptThrown,          \* an exception was thrown inside the try block
    ptResponses,       \* the responses POST returned, in order
    rcIsRecording,     \* demo app: the state isRecording
    rcWsRef,           \* wsRef.current (0 = null, n = the socket of the n-th startRecording call)
    rcStreamRef,       \* streamRef.current (0 = null, n = the stream of the n-th call)
    rcProcessorRef,    \* processorRef.current (0 = null, n = made by the n-th socket's onopen)
    rcAudioContextRef, \* audioContextRef.current (0 = null, n = made by the n-th socket's onopen)
    rcSock,            \* state of the socket of each startRecording call
    rcLive,            \* per call: its microphone stream, processor and audio context are live
    rcPc,              \* position of each startRecording call
    anSelectedFile,    \* emotion analyzer: selectedFile (0 = null)
    anBtnDisabled,     \* $analyzeBtn.disabled
    anRequests,        \* state of each runAnalysis call that reached fetch
    anAnalysisData,    \* analysisData (0 = null, r = the data of request r)
    anShown            \* the request whose results populateResults rendered last (0 = none)

\* state of the components other than the proxy
encVars == <<encRate, encInput, encOutput, encWsOpen, encDone>>
scVars == <<scWs, scSock, scPromise, scSent, scCloseCalls, scLastOp>>
sfVars == <<sfPc, sfI, sfFile>>
rtVars == <<rtMaxRetries, rtAttempt, rtPc, rtCalls, rtDelays, rtLastError, rtOutcome>>
ptVars == <<ptKey, ptForm, ptPc, ptFetches, ptVendor, ptThrown, ptResponses>>
rcVars == <<rcIsRecording, rcWsRef, rcStreamRef, rcProcessorRef, rcAudioContextRef, rcSock, rcLive, rcPc>>
anVars == <<anSelectedFile, anBtnDisabled, anRequests, anAnalysisData, anShown>>
nonProxyVars == <<encVars, scVars, sfVars, rtVars, ptVars, rcVars, anVars>>

\* proxy state that only the start-up code and wss.on('connection') write
configVars == <<apiKey, server, clientQuery, pulseHandshake>>

vars == <<variant, clientState, pulseState, pulseOpened, pulseErrors,
          pulseCloses, clientSent, upstreamReceived, pulseSent, clientOut,
          apiKey, server, clientQuery, pulseHandshake,
          encRate, encInput, encOutput, encWsOpen, encDone,
          scWs, scSock, scPromise, scSent, scCloseCalls, scLastOp,
          sfPc, sfI, sfFile,
          rtMaxRetries, rtAttempt, rtPc, rtCalls, rtDelays, rtLastError, rtOutcome,
          ptKey, ptForm, ptPc, ptFetches, ptVendor, ptThrown, ptResponses,
          rcIsRecording, rcWsRef, rcStreamRef, rcProcessorRef, rcAudioContextRef, rcSock, rcLive, rcPc,
          anSelectedFile, anBtnDisabled, anRequests, anAnalysisData, anShown>>

\* Helpers ----------------------------------------------------------------
RECURSIVE SumLen(_, _)
SumLen(f, S) ==
    IF S = {} THEN 0
    ELSE LET s == CHOOSE x \in S : TRUE
         IN  Len(f[s]) + SumLen(f, S \ {s})

MsgsUsed == SumLen(clientSent, Sessions) + SumLen(pulseSent, Sessions)

\* Frames a client can send.  `binary` is the outcome of
\* Buffer.isBuffer(data) || data instanceof ArrayBuffer, `json` says whether
\* JSON.parse(data.toString()) succeeds and `type` is the parsed msg.type.
ClientFrames(s, n) ==
    LET id == <<s, n>>
    IN { [id |-> id, binary |-> TRUE,  json |-> FALSE, type |-> "none"],   \* audio
         [id |-> id, binary |-> FALSE, json |-> TRUE,  type |-> "end"],    \* {"type":"end"}
         [id |-> id, binary |-> FALSE, json |-> TRUE,  type |-> "ping"],   \* other control
         [id |-> id, binary |-> FALSE, json |-> FALSE, type |-> "none"] }  \* unparseable text

IsAudio(f) == f.binary

\* JSON.stringify({ type: 'end' }): a fresh control object, not the client's frame
EndControl == [id |-> <<0, 0>>, binary |-> FALSE, json |-> TRUE, type |-> "end"]

\* Frames upstream can send.  `canon` says whether the text is already in
\* the form JSON.stringify would produce (no insignificant whitespace etc.).
UpstreamPayloads(s, n) ==
    LET id == <<s, n>> IN
    { [id |-> id, json |-> TRUE,  canon |-> TRUE,  type |-> "transcript",
       is_final |-> FALSE, is_last |-> FALSE],
      [id |-> id, json |-> TRUE,  canon |-> FALSE, type |-> "transcript",
       is_final |-> TRUE,  is_last |-> TRUE],
      [id |-> id, json |-> TRUE,  canon |-> TRUE,  type |-> "error",
       is_final |-> FALSE, is_last |-> FALSE],
      [id |-> id, json |-> FALSE, canon |-> FALSE, type |-> "raw",
       is_final |-> FALSE, is_last |-> FALSE] }

NoPayload == [id |-> <<0, 0>>, json |-> FALSE, canon |-> FALSE, type |-> "none",
              is_final |-> FALSE, is_last |-> FALSE]

\* JSON.parse(text): succeeds exactly on JSON text
JSONparses(p) == p.json

\* JSON.stringify(JSON.parse(text)): same value, canonical text
Reserialize(p) == [p EXCEPT !.canon = TRUE]

\* `cred` of a frame sent to a client: the credential text the frame
\* carries, NoCred when it carries none
NoCred == "none"

\* An event built by the proxy itself: JSON.stringify of an object literal
\* whose fields are constants, error.message, code and reason
ProxyEvent(t) == [origin |-> "proxy", type |-> t, payload |-> NoPayload,
                  cred |-> NoCred]

\* An upstream frame relayed to the client
Relayed(p) == [origin |-> "upstream", type |-> p.type, payload |-> p,
               cred |-> NoCred]

\* Faulty variant of ClientSend: the data is sent to every connected client
\* of the server instead of the client of the session
ClientSend_Broadcast(s, msg) ==
    clientOut' = [t \in Sessions |->
                    IF clientState[t] = "OPEN" THEN Append(clientOut[t], msg)
                    ELSE clientOut[t]]

\* clientWs.send(data): transmitted only while the client socket is OPEN
\* (ws discards data sent on a CLOSING/CLOSED socket when no callback is given)
ClientSend(s, msg) ==
    clientOut' = [clientOut EXCEPT ![s] =
                    IF clientState[s] = "OPEN" THEN Append(@, msg) ELSE @]

\* Values of process.env.SMALLEST_API_KEY: unset/empty, or a key
NoKey == ""
ApiKeys == {NoKey, "sk_live_key"}

\* A query parameter that the request does not carry (searchParams.get
\* returns null, parse(...).query has no such property)
Absent == "<absent>"

\* Connection queries a client can send: each parameter absent, empty or set
Queries ==
    [language : {Absent, "", "hi"}, sample_rate : {Absent, "", "44100"}]

\* The query of the demo client: ws://localhost:3001?language=..&sample_rate=16000
DemoQueries == {[language |-> "en", sample_rate |-> "16000"]}

NoQuery == [language |-> Absent, sample_rate |-> Absent]

\* value || fallback of JavaScript on a string that may be null or empty
OrDefault(v, d) == IF v \in {Absent, ""} THEN d ELSE v

\* The query string of pulseUrl built from the client's query q: ws-proxy.js
\* writes sample_rate: '16000', the ws-server copy passes the client's value
PulseParams(v, q) ==
    [language    |-> OrDefault(q.language, "en"),
     sample_rate |-> IF v = "ts" THEN OrDefault(q.sample_rate, "16000") ELSE "16000",
     encoding    |-> "linear16"]

\* new WebSocket(pulseUrl, { headers: { 'Authorization': `Bearer ${API_KEY}` } })
Handshake(v, q, key) == [params |-> PulseParams(v, q), auth |-> key]

NoHandshake == [params |-> [language |-> Absent, sample_rate |-> Absent,
                            encoding |-> Absent],
                auth |-> NoCred]

\* The encoder is idle while the proxy is under study
EncIdle ==
    /\ encRate = 16000
    /\ encInput = <<>>
    /\ encOutput = <<>>
    /\ encWsOpen = FALSE
    /\ encDone = FALSE

\* A PulseStreamingClient after its constructor, before any method call
NoOp == [op |-> "none", threw |-> FALSE]
ScNew ==
    /\ scWs = 0
    /\ scSock = [k \in 1..MaxConnects |-> "NONE"]
    /\ scPromise = [k \in 1..MaxConnects |-> "none"]
    /\ scSent = <<>>
    /\ scCloseCalls = [k \in 1..MaxConnects |-> 0]
    /\ scLastOp = NoOp

\* streamFile has not been called
SfIdle ==
    /\ sfPc = "idle"
    /\ sfI = 0
    /\ sfFile = 0

\* transcribeWithRetry has not been called
Null == [kind |-> "null"]
RtIdle ==
    /\ rtMaxRetries = 0
    /\ rtAttempt = 0
    /\ rtPc = "idle"
    /\ rtCalls = <<>>
    /\ rtDelays = <<>>
    /\ rtLastError = Null
    /\ rtOutcome = Null

\* no request has reached POST /api/transcribe
Unreadable == [readable |-> FALSE]
PtIdle ==
    /\ ptKey = ""
    /\ ptForm = Unreadable
    /\ ptPc = "idle"
    /\ ptFetches = <<>>
    /\ ptVendor = Null
    /\ ptThrown = FALSE
    /\ ptResponses = <<>>

\* the demo app after Home() has rendered: nothing recorded yet
NothingLive == [stream |-> FALSE, processor |-> FALSE, context |-> FALSE]
RcIdle ==
    /\ rcIsRecording = FALSE
    /\ rcWsRef = 0
    /\ rcStreamRef = 0
    /\ rcProcessorRef = 0
    /\ rcAudioContextRef = 0
    /\ rcSock = [n \in 1..MaxStarts |-> "NONE"]
    /\ rcLive = [n \in 1..MaxStarts |-> NothingLive]
    /\ rcPc = [n \in 1..MaxStarts |-> "none"]

\* the emotion analyzer after init(): no file, the button disabled
AnIdle ==
    /\ anSelectedFile = 0
    /\ anBtnDisabled = TRUE
    /\ anRequests = [r \in 1..MaxRequests |-> "none"]
    /\ anAnalysisData = 0
    /\ anShown = 0

Init ==
    /\ EncIdle
    /\ AnIdle
    /\ RcIdle
    /\ PtIdle
    /\ ScNew
    /\ SfIdle
    /\ RtIdle
    /\ apiKey \in ApiKeys
    /\ server = "starting"
    /\ clientQuery = [s \in Sessions |-> NoQuery]
    /\ pulseHandshake = [s \in Sessions |-> NoHandshake]
    /\ variant \in Variants
    /\ clientState = [s \in Sessions |-> "NONE"]
    /\ pulseState = [s \in Sessions |-> "NONE"]
    /\ pulseOpened = [s \in Sessions |-> 0]
    /\ pulseErrors = [s \in Sessions |-> 0]
    /\ pulseCloses = [s \in Sessions |-> 0]
    /\ clientSent = [s \in Sessions |-> <<>>]
    /\ upstreamReceived = [s \in Sessions |-> <<>>]
    /\ pulseSent = [s \in Sessions |-> <<>>]
    /\ clientOut = [s \in Sessions |-> <<>>]

\* Faulty variant of Startup: the API_KEY check is missing
Startup_NoKeyCheck ==
    /\ server = "starting"
    /\ server' = "listening"
    /\ UNCHANGED <<variant, clientState, pulseState, pulseOpened, pulseErrors,
                   pulseCloses, clientSent, upstreamReceived, pulseSent, clientOut,
                   apiKey, clientQuery, pulseHandshake, nonProxyVars>>

\* Top-level code of the proxy: without API_KEY the process exits before
\* server.listen is reached, otherwise the server starts listening
Startup ==
    /\ server = "starting"
    /\ server' = IF apiKey = NoKey THEN "exited" ELSE "listening"
    /\ UNCHANGED <<variant, clientState, pulseState, pulseOpened, pulseErrors,
                   pulseCloses, clientSent, upstreamReceived, pulseSent, clientOut,
                   apiKey, clientQuery, pulseHandshake, nonProxyVars>>

\* Faulty variant of OnConnection: 'connected' is sent as soon as the client
\* is accepted instead of in pulseWs.on('open')
OnConnection_SendsConnected(s, q) ==
    /\ server = "listening"
    /\ clientState[s] = "NONE"
    /\ \A t \in Sessions : t < s => clientState[t] # "NONE"
    /\ clientState' = [clientState EXCEPT ![s] = "OPEN"]
    /\ clientQuery' = [clientQuery EXCEPT ![s] = q]
    /\ pulseHandshake' = [pulseHandshake EXCEPT ![s] = Handshake(variant, q, apiKey)]
    /\ pulseState' = [pulseState EXCEPT ![s] = "CONNECTING"]
    /\ pulseOpened' = [pulseOpened EXCEPT ![s] = @ + 1]
    /\ clientOut' = [clientOut EXCEPT ![s] = Append(@, ProxyEvent("connected"))]
    /\ UNCHANGED <<apiKey, server, nonProxyVars>>
    /\ UNCHANGED <<variant, pulseErrors, pulseCloses, clientSent,
                   upstreamReceived, pulseSent>>

\* wss.on('connection'): a client with connection query q is accepted and
\* one upstream socket is constructed
OnConnection(s, q) ==
    /\ server = "listening"
    /\ clientState[s] = "NONE"
    /\ \A t \in Sessions : t < s => clientState[t] # "NONE"   \* numbered in accept order
    /\ clientState' = [clientState EXCEPT ![s] = "OPEN"]
    /\ clientQuery' = [clientQuery EXCEPT ![s] = q]
    /\ pulseHandshake' = [pulseHandshake EXCEPT ![s] = Handshake(variant, q, apiKey)]
    /\ pulseState' = [pulseState EXCEPT ![s] = "CONNECTING"]
    /\ pulseOpened' = [pulseOpened EXCEPT ![s] = @ + 1]
    /\ UNCHANGED <<apiKey, server, nonProxyVars>>
    /\ UNCHANGED <<variant, pulseErrors, pulseCloses, clientSent,
                   upstreamReceived, pulseSent, clientOut>>

\* Faulty variant of PulseOnOpen: the connected event reports the key in use
PulseOnOpen_LeaksKey(s) ==
    /\ pulseState[s] = "CONNECTING"
    /\ pulseState' = [pulseState EXCEPT ![s] = "OPEN"]
    /\ ClientSend(s, [ProxyEvent("connected") EXCEPT !.cred = apiKey])
    /\ UNCHANGED <<configVars, nonProxyVars>>
    /\ UNCHANGED <<variant, clientState, pulseOpened, pulseErrors, pulseCloses,
                   clientSent, upstreamReceived, pulseSent>>

\* pulseWs.on('open'): the upstream handshake succeeded
PulseOnOpen(s) ==
    /\ pulseState[s] = "CONNECTING"
    /\ pulseState' = [pulseState EXCEPT ![s] = "OPEN"]
    /\ ClientSend(s, ProxyEvent("connected"))
    /\ UNCHANGED <<configVars, nonProxyVars>>
    /\ UNCHANGED <<variant, clientState, pulseOpened, pulseErrors, pulseCloses,
                   clientSent, upstreamReceived, pulseSent>>

\* What pulseWs.on('message') hands to clientWs.send for upstream frame p
ForwardedPayload(v, p) ==
    IF v = "ts" /\ JSONparses(p) THEN Reserialize(p) ELSE p

\* Faulty variant of PulseOnMessage: the frame is sent inside the try block
\* and once more after it
PulseOnMessage_SendsTwice(s, p) ==
    /\ pulseState[s] \in {"OPEN", "CLOSING"}
    /\ pulseErrors[s] = 0
    /\ pulseSent' = [pulseSent EXCEPT ![s] = Append(@, p)]
    /\ clientOut' = [clientOut EXCEPT ![s] =
            IF clientState[s] = "OPEN"
            THEN @ \o << Relayed(ForwardedPayload(variant, p)),
                         Relayed(ForwardedPayload(variant, p)) >>
            ELSE @]
    /\ UNCHANGED <<configVars, nonProxyVars>>
    /\ UNCHANGED <<variant, clientState, pulseState, pulseOpened, pulseErrors,
                   pulseCloses, clientSent, upstreamReceived>>

\* pulseWs.on('message'): an upstream frame arrives (the socket still
\* delivers frames while a locally started close handshake is in progress)
PulseOnMessage(s, p) ==
    /\ pulseState[s] \in {"OPEN", "CLOSING"}
    /\ pulseErrors[s] = 0
    /\ pulseSent' = [pulseSent EXCEPT ![s] = Append(@, p)]
    /\ ClientSend(s, Relayed(ForwardedPayload(variant, p)))
    /\ UNCHANGED <<configVars, nonProxyVars>>
    /\ UNCHANGED <<variant, clientState, pulseState, pulseOpened, pulseErrors,
                   pulseCloses, clientSent, upstreamReceived>>

\* Faulty variant of PulseOnError: the handler opens a new upstream socket
PulseOnError_Reconnects(s) ==
    /\ pulseState[s] \in {"CONNECTING", "OPEN"}
    /\ pulseErrors[s] = 0
    /\ pulseState' = [pulseState EXCEPT ![s] = "CONNECTING"]
    /\ pulseOpened' = [pulseOpened EXCEPT ![s] = @ + 1]
    /\ pulseErrors' = [pulseErrors EXCEPT ![s] = @ + 1]
    /\ ClientSend(s, ProxyEvent("error"))
    /\ UNCHANGED <<configVars, nonProxyVars>>
    /\ UNCHANGED <<variant, clientState, pulseCloses, clientSent,
                   upstreamReceived, pulseSent>>

\* Faulty variant of PulseOnError: the handler only logs the error
PulseOnError_Silent(s) ==
    /\ pulseState[s] \in {"CONNECTING", "OPEN"}
    /\ pulseErrors[s] = 0
    /\ pulseState' = [pulseState EXCEPT ![s] = "CLOSING"]
    /\ pulseErrors' = [pulseErrors EXCEPT ![s] = @ + 1]
    /\ UNCHANGED <<configVars, nonProxyVars>>
    /\ UNCHANGED <<variant, clientState, pulseOpened, pulseCloses, clientSent,
                   upstreamReceived, pulseSent, clientOut>>

\* pulseWs.on('error'): handshake failure or transport error; ws moves the
\* socket to CLOSING before it emits 'error', and emits 'close' afterwards
PulseOnError(s) ==
    /\ pulseState[s] \in {"CONNECTING", "OPEN"}
    /\ pulseErrors[s] = 0
    /\ pulseState' = [pulseState EXCEPT ![s] = "CLOSING"]
    /\ pulseErrors' = [pulseErrors EXCEPT ![s] = @ + 1]
    /\ ClientSend(s, ProxyEvent("error"))
    /\ UNCHANGED <<configVars, nonProxyVars>>
    /\ UNCHANGED <<variant, clientState, pulseOpened, pulseCloses, clientSent,
                   upstreamReceived, pulseSent>>

\* The event pulseWs.on('close') builds: { type: 'closed', code, reason } in
\* ws-proxy.js, { type: 'disconnected' } in the ws-server module
CloseEventType(v) == IF v = "js" THEN "closed" ELSE "disconnected"

\* Faulty variant of PulseOnClose: the handler only logs the close
PulseOnClose_Silent(s) ==
    /\ pulseState[s] \in {"OPEN", "CLOSING"}
    /\ pulseState' = [pulseState EXCEPT ![s] = "CLOSED"]
    /\ pulseCloses' = [pulseCloses EXCEPT ![s] = @ + 1]
    /\ UNCHANGED <<configVars, nonProxyVars>>
    /\ UNCHANGED <<variant, clientState, pulseOpened, pulseErrors, clientSent,
                   upstreamReceived, pulseSent, clientOut>>

\* pulseWs.on('close'): the upstream socket reached CLOSED (closed by
\* upstream, after an error, or after the local pulseWs.close())
PulseOnClose(s) ==
    /\ pulseState[s] \in {"OPEN", "CLOSING"}
    /\ pulseState' = [pulseState EXCEPT ![s] = "CLOSED"]
    /\ pulseCloses' = [pulseCloses EXCEPT ![s] = @ + 1]
    /\ ClientSend(s, ProxyEvent(CloseEventType(variant)))
    /\ UNCHANGED <<configVars, nonProxyVars>>
    /\ UNCHANGED <<variant, clientState, pulseOpened, pulseErrors, clientSent,
                   upstreamReceived, pulseSent>>

\* Faulty variant of ForwardUpstream: a control message of another type is
\* passed on to upstream
ForwardUpstream_ForwardsControl(f) ==
    IF f.binary THEN <<f>>
    ELSE IF f.json THEN (IF f.type = "end" THEN <<EndControl>> ELSE <<f>>)
    ELSE <<f>>

\* What clientWs.on('message') hands to pulseWs.send for frame f, as a
\* sequence (empty: nothing is sent)
ForwardUpstream(f) ==
    IF f.binary THEN <<f>>
    ELSE IF f.json THEN (IF f.type = "end" THEN <<EndControl>> ELSE <<>>)
    ELSE <<f>>

\* Faulty variant of ClientOnMessage: the readyState test is missing
ClientOnMessage_NoReadyCheck(s, f) ==
    /\ clientState[s] = "OPEN"
    /\ clientSent' = [clientSent EXCEPT ![s] =
                        Append(@, [frame |-> f, open |-> pulseState[s] = "OPEN"])]
    /\ upstreamReceived' = [upstreamReceived EXCEPT ![s] = @ \o ForwardUpstream(f)]
    /\ UNCHANGED <<configVars, nonProxyVars>>
    /\ UNCHANGED <<variant, clientState, pulseState, pulseOpened, pulseErrors,
                   pulseCloses, pulseSent, clientOut>>

\* Faulty variant of ClientOnMessage: after relaying the end message the
\* handler closes the upstream socket
ClientOnMessage_ClosesOnEnd(s, f) ==
    /\ clientState[s] = "OPEN"
    /\ clientSent' = [clientSent EXCEPT ![s] =
                        Append(@, [frame |-> f, open |-> pulseState[s] = "OPEN"])]
    /\ upstreamReceived' = [upstreamReceived EXCEPT ![s] =
                        IF pulseState[s] = "OPEN" THEN @ \o ForwardUpstream(f) ELSE @]
    /\ pulseState' = [pulseState EXCEPT ![s] =
                        IF @ = "OPEN" /\ ForwardUpstream(f) = <<EndControl>>
                        THEN "CLOSING" ELSE @]
    /\ UNCHANGED <<configVars, nonProxyVars>>
    /\ UNCHANGED <<variant, clientState, pulseOpened, pulseErrors,
                   pulseCloses, pulseSent, clientOut>>

\* Faulty variant of ClientOnMessage: a frame that cannot be forwarded is
\* answered with an error event
ClientOnMessage_ErrorsWhenNotOpen(s, f) ==
    /\ clientState[s] = "OPEN"
    /\ clientSent' = [clientSent EXCEPT ![s] =
                        Append(@, [frame |-> f, open |-> pulseState[s] = "OPEN"])]
    /\ upstreamReceived' = [upstreamReceived EXCEPT ![s] =
                        IF pulseState[s] = "OPEN" THEN @ \o ForwardUpstream(f) ELSE @]
    /\ clientOut' = [clientOut EXCEPT ![s] =
                        IF pulseState[s] = "OPEN" THEN @ ELSE Append(@, ProxyEvent("error"))]
    /\ UNCHANGED <<configVars, nonProxyVars>>
    /\ UNCHANGED <<variant, clientState, pulseState, pulseOpened, pulseErrors,
                   pulseCloses, pulseSent>>

\* clientWs.on('message'): a frame arrives from the client.  The log entry
\* keeps whether the handler found pulseWs.readyState === WebSocket.OPEN.
ClientOnMessage(s, f) ==
    /\ clientState[s] = "OPEN"
    /\ clientSent' = [clientSent EXCEPT ![s] =
                        Append(@, [frame |-> f, open |-> pulseState[s] = "OPEN"])]
    /\ upstreamReceived' = [upstreamReceived EXCEPT ![s] =
                        IF pulseState[s] = "OPEN" THEN @ \o ForwardUpstream(f) ELSE @]
    /\ UNCHANGED <<configVars, nonProxyVars>>
    /\ UNCHANGED <<variant, clientState, pulseState, pulseOpened, pulseErrors,
                   pulseCloses, pulseSent, clientOut>>

\* Faulty variant of ClientOnClose: after pulseWs.close() the handler emits
\* the upstream 'close' event itself, and the socket emits it again later
ClientOnClose_EmitsClose(s) ==
    /\ clientState[s] = "OPEN"
    /\ clientState' = [clientState EXCEPT ![s] = "CLOSED"]
    /\ pulseState' = [pulseState EXCEPT ![s] =
                        IF @ = "OPEN" THEN "CLOSING" ELSE @]
    /\ pulseCloses' = [pulseCloses EXCEPT ![s] =
                        IF pulseState[s] = "OPEN" THEN @ + 1 ELSE @]
    /\ UNCHANGED <<configVars, nonProxyVars>>
    /\ UNCHANGED <<variant, pulseOpened, pulseErrors, clientSent,
                   upstreamReceived, pulseSent, clientOut>>

\* clientWs.on('close'): the client went away
ClientOnClose(s) ==
    /\ clientState[s] = "OPEN"
    /\ clientState' = [clientState EXCEPT ![s] = "CLOSED"]
    /\ pulseState' = [pulseState EXCEPT ![s] =
                        IF @ = "OPEN" THEN "CLOSING" ELSE @]
    /\ UNCHANGED <<configVars, nonProxyVars>>
    /\ UNCHANGED <<variant, pulseOpened, pulseErrors, pulseCloses, clientSent,
                   upstreamReceived, pulseSent, clientOut>>

Next ==
    \/ Startup
    \/ \E s \in Sessions : \E q \in DemoQueries : OnConnection(s, q)
    \/ \E s \in Sessions : PulseOnOpen(s)
    \/ \E s \in Sessions : MsgsUsed < MaxMsgs /\
          \E p \in UpstreamPayloads(s, Len(pulseSent[s]) + 1) : PulseOnMessage(s, p)
    \/ \E s \in Sessions : PulseOnError(s)
    \/ \E s \in Sessions : PulseOnClose(s)
    \/ \E s \in Sessions : MsgsUsed < MaxMsgs /\
          \E f \in ClientFrames(s, Len(clientSent[s]) + 1) : ClientOnMessage(s, f)
    \/ \E s \in Sessions : ClientOnClose(s)

\* The proxy serving demo clients: connections, traffic and teardown
Spec == Init /\ [][Next]_vars

\* The proxy accepting clients with any connection query: start-up,
\* connection set-up and teardown, without traffic
NextConnect ==
    \/ Startup
    \/ \E s \in Sessions : \E q \in Queries : OnConnection(s, q)
    \/ \E s \in Sessions : PulseOnOpen(s)
    \/ \E s \in Sessions : PulseOnError(s)
    \/ \E s \in Sessions : PulseOnClose(s)
    \/ \E s \in Sessions : ClientOnClose(s)

SpecConnect == Init /\ [][NextConnect]_vars

\* Derived views of the logs -----------------------------------------------
\* the frames of a clientSent log
FramesOf(log) == [i \in 1..Len(log) |-> log[i].frame]

\* the audio (binary) frames of a sequence of frames
AudioOf(frames) == SelectSeq(frames, IsAudio)

\* the audio frames the client sent while the handler found upstream OPEN
AudioSentWhileOpen(s) ==
    FramesOf(SelectSeq(clientSent[s], LAMBDA e : e.open /\ IsAudio(e.frame)))

\* the upstream frames that reached the client, in order
RelayedPayloads(s) ==
    LET rel == SelectSeq(clientOut[s], LAMBDA m : m.origin = "upstream")
    IN  [i \in 1..Len(rel) |-> rel[i].payload]

\* positions in clientOut[s] of the proxy's own events of the given types
ProxyEventIdx(s, types) ==
    {i \in 1..Len(clientOut[s]) :
        clientOut[s][i].origin = "proxy" /\ clientOut[s][i].type \in types}

CloseEventTypes == {"closed", "disconnected"}

\* an error status message of upstream has been relayed to the client of s
ErrorStatusRelayed(s) ==
    \E i \in 1..Len(clientOut[s]) :
        clientOut[s][i].origin = "upstream" /\ clientOut[s][i].type = "error"

\* a terminal event: last transcript, error event or closed event
IsTerminal(m) ==
    \/ m.origin = "proxy" /\ m.type \in ({"error"} \cup CloseEventTypes)
    \/ m.origin = "upstream" /\ (m.payload.is_last \/ m.type = "error")

\* ---------------------------------------------------------------------------
\* C1: whenever a session's client connection has closed, the proxy closes
\* the paired upstream connection: by the next step at the latest the
\* upstream connection is Closing or Closed, also when it was still
\* connecting at the time the client left.
C1_ClientCloseClosesUpstream ==
    [][\A s \in Sessions :
          clientState[s] = "CLOSED" => pulseState'[s] \in {"CLOSING", "CLOSED"}]_vars

\* C2: whenever a session's upstream connection is Closed, the proxy closes
\* the paired client connection: by the next step at the latest the client
\* connection is no longer open.
C2_UpstreamCloseClosesClient ==
    [][\A s \in Sessions :
          pulseState[s] = "CLOSED" => clientState'[s] # "OPEN"]_vars

\* C3 (as stated): the audio frames upstream receives in a session equal the
\* audio frames the client sent, as ordered sequences.
C3_UpstreamReceivedEqualsClientSent ==
    \A s \in Sessions :
        AudioOf(upstreamReceived[s]) = AudioOf(FramesOf(clientSent[s]))

\* C3 (amended): the audio frames upstream receives in a session are, in the
\* same order and without duplicates, exactly the audio frames the client
\* sent while the upstream connection was Open; audio frames that arrive
\* while it is not Open are dropped.
C3_UpstreamReceivedEqualsSentWhileOpen ==
    \A s \in Sessions :
        AudioOf(upstreamReceived[s]) = AudioSentWhileOpen(s)

\* C3 witness: a session in which one audio frame was dropped and a later
\* one was forwarded
C3_Witness ==
    \E s \in Sessions :
        /\ Len(AudioOf(FramesOf(clientSent[s]))) = 2
        /\ Len(AudioOf(upstreamReceived[s])) = 1

\* C4 (as stated): every frame received from upstream is forwarded to the
\* session's client exactly once, unchanged and in order.
C4_EveryUpstreamFrameRelayedUnchanged ==
    \A s \in Sessions : RelayedPayloads(s) = pulseSent[s]

\* C4 (amended): the frames relayed to a session's client are, in order and
\* each exactly once, the frames upstream sent up to the moment the client
\* connection stopped being open (all of them while it is open).  A relayed
\* frame keeps its fields (type, is_final, is_last, content); its text is
\* unchanged in ws-proxy.js and for a frame that is not JSON, while the
\* ws-server copy relays a JSON frame re-serialized by JSON.stringify.
C4_UpstreamFramesRelayedInOrder ==
    \A s \in Sessions :
        LET out == RelayedPayloads(s)
        IN  /\ Len(out) <= Len(pulseSent[s])
            /\ clientState[s] = "OPEN" => Len(out) = Len(pulseSent[s])
            /\ \A i \in 1..Len(out) :
                  /\ out[i].id = pulseSent[s][i].id
                  /\ out[i].json = pulseSent[s][i].json
                  /\ out[i].type = pulseSent[s][i].type
                  /\ out[i].is_final = pulseSent[s][i].is_final
                  /\ out[i].is_last = pulseSent[s][i].is_last
                  /\ out[i].canon = (IF variant = "ts" /\ pulseSent[s][i].json
                                     THEN TRUE ELSE pulseSent[s][i].canon)

\* C4 witness: two upstream frames relayed to a connected client, the
\* second one a final transcript that is not in canonical JSON form
C4_Witness ==
    \E s \in Sessions :
        /\ clientState[s] = "OPEN"
        /\ Len(RelayedPayloads(s)) = 2
        /\ pulseSent[s][2].is_last /\ ~pulseSent[s][2].canon

\* C5: once the client has sent the end-of-stream control message, no audio
\* frame it sends afterwards is forwarded upstream.
C5_NoAudioForwardedAfterEnd ==
    \A s \in Sessions :
        \A i, j \in 1..Len(clientSent[s]) :
            (/\ i < j
             /\ ~clientSent[s][i].frame.binary
             /\ clientSent[s][i].frame.json
             /\ clientSent[s][i].frame.type = "end"
             /\ IsAudio(clientSent[s][j].frame))
            => \A k \in 1..Len(upstreamReceived[s]) :
                  upstreamReceived[s][k] # clientSent[s][j].frame

\* C6: each session has exactly one upstream connection for its one client
\* connection, and no further upstream connection is ever opened, also not
\* after the upstream connection errored or closed.
C6_OneUpstreamPerSession ==
    \A s \in Sessions :
        pulseOpened[s] = (IF clientState[s] = "NONE" THEN 0 ELSE 1)

\* C6 witness: a session whose upstream connection errored and closed
C6_Witness ==
    \E s \in Sessions :
        pulseErrors[s] = 1 /\ pulseState[s] = "CLOSED" /\ pulseOpened[s] = 1

\* C7: the closed event of a session's upstream connection is emitted
\* exactly once when the connection reaches Closed, never twice, whether the
\* close was started locally or remotely; the client gets at most one closed
\* event, and exactly one when it is still connected.
C7_ClosedEventOnce ==
    \A s \in Sessions :
        /\ pulseCloses[s] <= 1
        /\ pulseCloses[s] = 1 <=> pulseState[s] = "CLOSED"
        /\ Cardinality(ProxyEventIdx(s, CloseEventTypes)) <= pulseCloses[s]
        /\ (pulseState[s] = "CLOSED" /\ clientState[s] = "OPEN")
              => Cardinality(ProxyEventIdx(s, CloseEventTypes)) = 1

\* C7 witness: one upstream connection closed after the client left (local
\* close) and another one closed under a connected client (remote close)
C7_Witness ==
    \E s, t \in Sessions :
        /\ clientState[s] = "CLOSED" /\ pulseState[s] = "CLOSED"
        /\ pulseErrors[s] = 0 /\ ProxyEventIdx(s, CloseEventTypes) = {}
        /\ clientState[t] = "OPEN" /\ pulseState[t] = "CLOSED"

\* C8: when a session's upstream connection fails with a connection-level
\* error while the client is connected, the client is sent exactly one
\* {type: 'error'} event for it, and that event precedes the closed event;
\* no error event is built without an upstream error.
C8_OneErrorEventBeforeClosed ==
    \A s \in Sessions :
        LET errs == ProxyEventIdx(s, {"error"})
            cls  == ProxyEventIdx(s, CloseEventTypes)
        IN  /\ Cardinality(errs) <= pulseErrors[s]
            /\ (pulseErrors[s] = 1 /\ clientState[s] = "OPEN") => Cardinality(errs) = 1
            /\ \A i \in errs : \A j \in cls : i < j

\* C8 witness: an upstream connection failed and closed under a connected
\* client, which got the error event and then the closed event
C8_Witness ==
    \E s \in Sessions :
        /\ pulseErrors[s] = 1 /\ pulseState[s] = "CLOSED" /\ clientState[s] = "OPEN"
        /\ ProxyEventIdx(s, {"error"}) # {}
        /\ ProxyEventIdx(s, CloseEventTypes) # {}

\* C9: once an error status message of upstream has been relayed to the
\* client, the session closes within one scheduling step: after the next
\* step both of its connections are Closed.
C9_ErrorStatusClosesSession ==
    [][\A s \in Sessions :
          ErrorStatusRelayed(s) =>
              (clientState'[s] = "CLOSED" /\ pulseState'[s] = "CLOSED")]_vars

\* C10: in every session whose upstream connection has ended (error or
\* close) while the client is still connected, the client has been sent a
\* terminal event: a transcript with is_last, an error event or a closed
\* event.
C10_TerminalEventSent ==
    \A s \in Sessions :
        (clientState[s] = "OPEN" /\ (pulseState[s] = "CLOSED" \/ pulseErrors[s] = 1))
        => \E i \in 1..Len(clientOut[s]) : IsTerminal(clientOut[s][i])

\* C10 witness: upstream closed without an error and without a last
\* transcript, and the connected client holds the closed event
C10_Witness ==
    \E s \in Sessions :
        /\ clientState[s] = "OPEN" /\ pulseState[s] = "CLOSED" /\ pulseErrors[s] = 0
        /\ \A i \in 1..Len(pulseSent[s]) : ~pulseSent[s][i].is_last
        /\ ProxyEventIdx(s, CloseEventTypes) # {}

\* positions in clientOut[s] of the proxy's 'connected' event
ConnectedIdx(s) == ProxyEventIdx(s, {"connected"})

\* C11: in each session the proxy sends the connected event at most once,
\* only in the step in which the upstream handshake succeeds (never while
\* upstream is still connecting, never after a failed handshake) and before
\* every relayed upstream event; a client that is connected while upstream
\* is Open has received it exactly once.
C11_ConnectedOnceAtHandshake ==
    /\ [](\A s \in Sessions :
            /\ Cardinality(ConnectedIdx(s)) <= 1
            /\ pulseState[s] \in {"NONE", "CONNECTING"} => ConnectedIdx(s) = {}
            /\ (pulseState[s] = "OPEN" /\ clientState[s] = "OPEN")
                  => Cardinality(ConnectedIdx(s)) = 1
            /\ \A i \in ConnectedIdx(s) : \A j \in 1..Len(clientOut[s]) :
                  clientOut[s][j].origin = "upstream" => i < j)
    /\ [][\A s \in Sessions :
            ConnectedIdx(s)' # ConnectedIdx(s)
              => (pulseState[s] = "CONNECTING" /\ pulseState'[s] = "OPEN")]_vars

\* C11 witness: a client that got the connected event and then a transcript
C11_Witness ==
    \E s \in Sessions :
        /\ Len(clientOut[s]) = 2
        /\ clientOut[s][1] = ProxyEvent("connected")
        /\ clientOut[s][2].origin = "upstream"
        /\ clientOut[s][2].type = "transcript"

\* session s received a frame from its client in this step
ClientFrameArrives(s) == Len(clientSent'[s]) = Len(clientSent[s]) + 1

\* the frame that arrives in this step
ArrivingFrame(s) == clientSent'[s][Len(clientSent'[s])].frame

\* the connection states of all sessions stay as they are in this step
ConnectionsUnchanged ==
    /\ clientState' = clientState
    /\ pulseState' = pulseState
    /\ pulseErrors' = pulseErrors
    /\ pulseCloses' = pulseCloses

\* C12: an audio frame that arrives from the client while the upstream
\* connection is not Open is dropped: the step sends nothing upstream and
\* nothing to the client and leaves the connection states unchanged, and
\* the frame is never sent upstream later either.
C12_AudioDroppedWhenNotOpen ==
    /\ [](\A s \in Sessions : \A i \in 1..Len(clientSent[s]) :
            (IsAudio(clientSent[s][i].frame) /\ ~clientSent[s][i].open)
            => \A t \in Sessions : \A k \in 1..Len(upstreamReceived[t]) :
                  upstreamReceived[t][k] # clientSent[s][i].frame)
    /\ [][\A s \in Sessions :
            (ClientFrameArrives(s) /\ IsAudio(ArrivingFrame(s)) /\ pulseState[s] # "OPEN")
            => /\ upstreamReceived' = upstreamReceived
               /\ clientOut' = clientOut
               /\ ConnectionsUnchanged]_vars

\* C12 witness: an audio frame arrived during the upstream handshake, and
\* upstream is Open now without having received anything
C12_Witness ==
    \E s \in Sessions :
        /\ pulseState[s] = "OPEN"
        /\ upstreamReceived[s] = <<>>
        /\ \E i \in 1..Len(clientSent[s]) :
              IsAudio(clientSent[s][i].frame) /\ ~clientSent[s][i].open

\* a text frame that parses as JSON
IsJsonText(f) == ~f.binary /\ f.json

\* a text frame that does not parse as JSON
IsBadText(f) == ~f.binary /\ ~f.json

\* the end-of-stream messages of the client of s, all / those that arrived
\* while upstream was Open
EndFrames(s) ==
    SelectSeq(clientSent[s], LAMBDA e : IsJsonText(e.frame) /\ e.frame.type = "end")
EndFramesWhileOpen(s) ==
    SelectSeq(clientSent[s],
              LAMBDA e : IsJsonText(e.frame) /\ e.frame.type = "end" /\ e.open)

\* the {type: 'end'} control messages sent upstream in session s
EndsSentUpstream(s) == SelectSeq(upstreamReceived[s], LAMBDA d : d = EndControl)

\* no control message of a type other than 'end' has been sent upstream
NoOtherControlUpstream ==
    \A s \in Sessions : \A k \in 1..Len(upstreamReceived[s]) :
        ~(IsJsonText(upstreamReceived[s][k]) /\ upstreamReceived[s][k].type # "end")

PulseFrameArrives(s) == Len(pulseSent'[s]) = Len(pulseSent[s]) + 1

\* C14: relaying the client's end message upstream leaves both connections
\* of the session as they are, and every frame upstream sends after the end
\* message has been relayed is delivered to the still connected client.
C14_EndKeepsSessionOpen ==
    [][\A s \in Sessions :
          /\ (ClientFrameArrives(s) /\ IsJsonText(ArrivingFrame(s))
                 /\ ArrivingFrame(s).type = "end")
              => ConnectionsUnchanged
          /\ (PulseFrameArrives(s) /\ EndsSentUpstream(s) # <<>>
                 /\ clientState[s] = "OPEN")
              => /\ Len(clientOut'[s]) = Len(clientOut[s]) + 1
                 /\ LET m == clientOut'[s][Len(clientOut'[s])]
                        p == pulseSent'[s][Len(pulseSent'[s])]
                    IN  /\ m.origin = "upstream"
                        /\ m.payload.id = p.id
                        /\ m.payload.is_final = p.is_final
                        /\ m.payload.is_last = p.is_last]_vars

\* C14 witness: the end message was relayed, both connections are open and
\* the client holds the last transcript
C14_Witness ==
    \E s \in Sessions :
        /\ EndsSentUpstream(s) # <<>>
        /\ clientState[s] = "OPEN" /\ pulseState[s] = "OPEN"
        /\ Len(pulseSent[s]) = 1 /\ pulseSent[s][1].is_last
        /\ clientOut[s][Len(clientOut[s])].origin = "upstream"
        /\ clientOut[s][Len(clientOut[s])].payload.is_last

\* C15: a text frame from the client that cannot be parsed as JSON is
\* dropped: nothing is sent upstream for it.
C15_UnparseableTextDropped ==
    \A s \in Sessions : \A k \in 1..Len(upstreamReceived[s]) :
        ~IsBadText(upstreamReceived[s][k])

\* everything the proxy holds for session s
SessionView(s) ==
    <<clientState[s], pulseState[s], pulseOpened[s], pulseErrors[s],
      pulseCloses[s], clientSent[s], upstreamReceived[s], pulseSent[s],
      clientOut[s], clientQuery[s], pulseHandshake[s]>>

C17_NoKeyNoService ==
    apiKey = NoKey =>
        /\ server # "listening"
        /\ \A s \in Sessions :
              /\ clientState[s] = "NONE"
              /\ pulseState[s] = "NONE"
              /\ pulseOpened[s] = 0

\* C17 witness: the process has exited for lack of a key
C17_Witness == apiKey = NoKey /\ server = "exited"

C19_UpstreamOpenedWithClientParams ==
    \A s \in Sessions :
        pulseState[s] # "NONE" =>
            /\ pulseHandshake[s].params.encoding = "linear16"
            /\ clientQuery[s].language = Absent
                  => pulseHandshake[s].params.language = "en"
            /\ clientQuery[s].language \notin {Absent, ""}
                  => pulseHandshake[s].params.language = clientQuery[s].language
            /\ clientQuery[s].sample_rate = Absent
                  => pulseHandshake[s].params.sample_rate = "16000"
            /\ clientQuery[s].sample_rate \notin {Absent, ""}
                  => pulseHandshake[s].params.sample_rate = clientQuery[s].sample_rate

\* ---------------------------------------------------------------------------
\* The audio encoder of the demo app: processorRef.current.onaudioprocess.
\* A sample is an integer number of 1/SampleUnit; an interpolated sample is
\* an integer number of 1/(SampleUnit * TargetRate).  The arithmetic is
\* exact where the code computes in floating point.

TargetRate == 16000      \* the rate the encoder resamples to
NegScale == 32768        \* 0x8000
PosScale == 32767        \* 0x7FFF

\* audioContext.sampleRate values of capture devices
Rates == {8000, 16000, 32000, 44100, 48000}

\* sample values: 0, the smallest step, 1.0, 2.0 and their negatives
SampleValues == {-2 * SampleUnit, -SampleUnit, -1, 0, 1, SampleUnit, 2 * SampleUnit}

\* input buffers of up to MaxLen samples
InputBuffers == UNION {[1..n -> SampleValues] : n \in 0..MaxLen}

\* Faulty variant of NewLength: Math.floor instead of Math.round
NewLength_Floor(rate, len) == (len * TargetRate) \div rate

\* newLength = Math.round(input.length / ratio) with ratio = rate / 16000:
\* Math.round rounds to the nearest integer, a half upwards
NewLength(rate, len) == (2 * len * TargetRate + rate) \div (2 * rate)

\* resampled[i] for the 0-based output index i, as a multiple of
\* 1/(SampleUnit * TargetRate): srcIndex = i * rate / 16000
Interpolate(rate, input, i) ==
    LET srcIndexFloor == (i * rate) \div TargetRate
        fraction      == (i * rate) % TargetRate
        srcIndexCeil  == IF srcIndexFloor + 1 < Len(input) - 1
                         THEN srcIndexFloor + 1 ELSE Len(input) - 1
    IN  input[srcIndexFloor + 1] * (TargetRate - fraction)
          + input[srcIndexCeil + 1] * fraction

\* the resampled buffer: the input itself at the target rate, otherwise
\* newLength linearly interpolated samples
Resample(rate, input) ==
    IF rate # TargetRate
    THEN [k \in 1..NewLength(rate, Len(input)) |-> Interpolate(rate, input, k - 1)]
    ELSE [k \in 1..Len(input) |-> input[k] * TargetRate]

\* Faulty variant of Clamp: the sample is scaled as it is
Clamp_None(x) == x

\* Math.max(-1, Math.min(1, x)) on a multiple of 1/(SampleUnit * TargetRate)
Clamp(x) ==
    LET one == SampleUnit * TargetRate
    IN  IF x > one THEN one ELSE IF x < -one THEN -one ELSE x

\* the integer part of c * scale for c >= 0 a multiple of
\* 1/(SampleUnit * TargetRate), whole part and fraction scaled apart
ScaleAndTruncate(c, scale) ==
    LET one == SampleUnit * TargetRate
    IN  (c \div one) * scale + ((c % one) * scale) \div one

\* a store into an Int16Array keeps the low 16 bits as a signed number
Int16Wrap(v) == ((v + 32768) % 65536) - 32768

\* outputData[i] = s < 0 ? s * 0x8000 : s * 0x7FFF stored in an Int16Array,
\* which drops the fraction (towards zero) and wraps modulo 2^16
ToInt16(x) ==
    LET c == Clamp(x)
    IN  IF c < 0 THEN Int16Wrap(-ScaleAndTruncate(-c, NegScale))
        ELSE Int16Wrap(ScaleAndTruncate(c, PosScale))

\* the Int16 buffer that onaudioprocess sends for an input buffer
Encode(rate, input) ==
    LET resampled == Resample(rate, input)
    IN  [k \in 1..Len(resampled) |-> ToInt16(resampled[k])]

\* the proxy takes no step while the encoder is under study
ProxyIdle ==
    /\ variant = "ts"
    /\ apiKey = "sk_live_key"
    /\ server = "starting"
    /\ clientQuery = [s \in Sessions |-> NoQuery]
    /\ pulseHandshake = [s \in Sessions |-> NoHandshake]
    /\ clientState = [s \in Sessions |-> "NONE"]
    /\ pulseState = [s \in Sessions |-> "NONE"]
    /\ pulseOpened = [s \in Sessions |-> 0]
    /\ pulseErrors = [s \in Sessions |-> 0]
    /\ pulseCloses = [s \in Sessions |-> 0]
    /\ clientSent = [s \in Sessions |-> <<>>]
    /\ upstreamReceived = [s \in Sessions |-> <<>>]
    /\ pulseSent = [s \in Sessions |-> <<>>]
    /\ clientOut = [s \in Sessions |-> <<>>]

proxyVars == <<variant, clientState, pulseState, pulseOpened, pulseErrors,
               pulseCloses, clientSent, upstreamReceived, pulseSent, clientOut,
               configVars>>

\* a capture device, an input buffer and a socket state
InitEncoder ==
    /\ ProxyIdle
    /\ AnIdle
    /\ RcIdle
    /\ PtIdle
    /\ ScNew
    /\ SfIdle
    /\ RtIdle
    /\ encRate \in Rates
    /\ encInput \in InputBuffers
    /\ encWsOpen \in BOOLEAN
    /\ encOutput = <<>>
    /\ encDone = FALSE

\* onaudioprocess: encodes the input buffer and sends it when the socket
\* is open, and does nothing otherwise
OnAudioProcess ==
    /\ ~encDone
    /\ encDone' = TRUE
    /\ encOutput' = IF encWsOpen THEN Encode(encRate, encInput) ELSE <<>>
    /\ UNCHANGED <<encRate, encInput, encWsOpen, proxyVars, scVars, sfVars, rtVars, ptVars, rcVars, anVars>>

NextEncoder == OnAudioProcess

SpecEncoder == InitEncoder /\ [][NextEncoder]_vars

\* the input buffer is pure silence
IsSilence(buf) == \A k \in 1..Len(buf) : buf[k] = 0

\* n is len * 16000 / rate rounded to the nearest integer (a half upwards)
IsRounded(n, rate, len) ==
    /\ 2 * n * rate <= 2 * len * TargetRate + rate
    /\ 2 * len * TargetRate + rate < 2 * (n + 1) * rate

\* C20: for every capture rate and every input length, 0 included, the
\* encoding of an all-zero input buffer is an all-zero buffer of length
\* round(len * 16000 / R); at R = 16000 the lengths are equal.
C20_SilenceEncodesToSilence ==
    (encDone /\ encWsOpen /\ IsSilence(encInput)) =>
        /\ IsSilence(encOutput)
        /\ IsRounded(Len(encOutput), encRate, Len(encInput))
        /\ encRate = TargetRate => Len(encOutput) = Len(encInput)

\* C20 witness: two samples of silence captured at 48000 Hz were encoded
\* to one sample (2/3 rounds up)
C20_Witness ==
    /\ encDone /\ encWsOpen
    /\ encRate = 48000
    /\ Len(encInput) = 2 /\ IsSilence(encInput)
    /\ encOutput = <<0>>
\* C21: every encoded sample lies in [-32768, 32767], whatever the input
\* samples are; without resampling an input of 1.0 or more encodes to 32767,
\* an input of -1.0 or less to -32768, and 0 to 0.
C21_OutputWithinInt16 ==
    (encDone /\ encWsOpen) =>
        /\ \A k \in 1..Len(encOutput) :
              -NegScale <= encOutput[k] /\ encOutput[k] <= PosScale
        /\ encRate = TargetRate =>
              /\ Len(encOutput) = Len(encInput)
              /\ \A k \in 1..Len(encInput) :
                    /\ encInput[k] >= SampleUnit => encOutput[k] = PosScale
                    /\ encInput[k] <= -SampleUnit => encOutput[k] = -NegScale
                    /\ encInput[k] = 0 => encOutput[k] = 0

\* C21 witness: the samples 2.0, -2.0 and 0 were encoded without resampling
C21_Witness ==
    /\ encDone /\ encWsOpen
    /\ encRate = TargetRate
    /\ encInput = <<2 * SampleUnit, -2 * SampleUnit, 0>>
    /\ encOutput = <<PosScale, -NegScale, 0>>

\* ---------------------------------------------------------------------------
\* The streaming client: class PulseStreamingClient of browser_client.js.
\* A method call or a socket event is one action.  The `ws` socket behind
\* this.ws transmits a frame when it is OPEN, throws from send() while it is
\* CONNECTING and drops the frame without throwing when CLOSING or CLOSED.

ChunkSize == 3200        \* bytes of audio in one chunk
HeaderSize == 44         \* bytes of the WAV header that streamFile skips

\* a binary audio frame holding the bytes from..to-1 of the audio data
AudioFrame(from, to) == [kind |-> "audio", from |-> from, to |-> to]

\* JSON.stringify({ type: 'end' })
EndFrame == [kind |-> "end", from |-> 0, to |-> 0]

\* the number of sockets connect() has made
SocketsMade == Cardinality({k \in 1..MaxConnects : scSock[k] # "NONE"})

\* this.ws && this.ws.readyState === WebSocket.OPEN
ScIsOpen == scWs # 0 /\ scSock[scWs] = "OPEN"

\* this.ws.send(frame) for the method `op`
WsSend(frame, op) ==
    /\ scSent' = IF scSock[scWs] = "OPEN"
                 THEN Append(scSent, <<scWs, frame>>) ELSE scSent
    /\ scLastOp' = [op |-> op, threw |-> scSock[scWs] = "CONNECTING"]

\* readyState after ws.close()
WsCloseState(st) == IF st \in {"CONNECTING", "OPEN"} THEN "CLOSING" ELSE st

\* connect(): a new socket replaces this.ws; the returned promise is pending
Connect ==
    /\ SocketsMade < MaxConnects
    /\ LET k == SocketsMade + 1
       IN  /\ scWs' = k
           /\ scSock' = [scSock EXCEPT ![k] = "CONNECTING"]
           /\ scPromise' = [scPromise EXCEPT ![k] = "pending"]
    /\ scLastOp' = [op |-> "connect", threw |-> FALSE]
    /\ UNCHANGED <<scSent, scCloseCalls>>

\* Faulty variant of SendAudio: only this.ws is tested, not its readyState
SendAudio_NoReadyCheck(audioChunk) ==
    /\ IF scWs # 0
       THEN WsSend(audioChunk, "sendAudio")
       ELSE /\ scSent' = scSent
            /\ scLastOp' = [op |-> "sendAudio", threw |-> FALSE]
    /\ UNCHANGED <<scWs, scSock, scPromise, scCloseCalls>>

\* sendAudio(audioChunk)
SendAudio(audioChunk) ==
    /\ IF ScIsOpen
       THEN WsSend(audioChunk, "sendAudio")
       ELSE /\ scSent' = scSent
            /\ scLastOp' = [op |-> "sendAudio", threw |-> FALSE]
    /\ UNCHANGED <<scWs, scSock, scPromise, scCloseCalls>>

\* sendEnd()
SendEnd ==
    /\ IF ScIsOpen
       THEN WsSend(EndFrame, "sendEnd")
       ELSE /\ scSent' = scSent
            /\ scLastOp' = [op |-> "sendEnd", threw |-> FALSE]
    /\ UNCHANGED <<scWs, scSock, scPromise, scCloseCalls>>

\* close(): closes the socket and forgets it, when there is one
Close ==
    /\ IF scWs # 0
       THEN /\ scSock' = [scSock EXCEPT ![scWs] = WsCloseState(@)]
            /\ scCloseCalls' = [scCloseCalls EXCEPT ![scWs] = @ + 1]
            /\ scWs' = 0
       ELSE UNCHANGED <<scSock, scCloseCalls, scWs>>
    /\ scLastOp' = [op |-> "close", threw |-> FALSE]
    /\ UNCHANGED <<scPromise, scSent>>

\* this.ws.on('open'): resolve()
WsOnOpen(k) ==
    /\ scSock[k] = "CONNECTING"
    /\ scSock' = [scSock EXCEPT ![k] = "OPEN"]
    /\ scPromise' = [scPromise EXCEPT ![k] = "resolved"]
    /\ scLastOp' = [op |-> "open", threw |-> FALSE]
    /\ UNCHANGED <<scWs, scSent, scCloseCalls>>

\* this.ws.on('error'): reject(error), which settles a pending promise only;
\* the socket is closed afterwards
WsOnError(k) ==
    /\ scSock[k] \in {"CONNECTING", "OPEN", "CLOSING"}
    /\ scSock' = [scSock EXCEPT ![k] = "CLOSED"]
    /\ scPromise' = [scPromise EXCEPT ![k] = IF @ = "pending" THEN "rejected" ELSE @]
    /\ scLastOp' = [op |-> "error", threw |-> FALSE]
    /\ UNCHANGED <<scWs, scSent, scCloseCalls>>

\* this.ws.on('close') of a socket that had opened: a log line only
WsOnClose(k) ==
    /\ scSock[k] \in {"OPEN", "CLOSING"}
    /\ scPromise[k] = "resolved"
    /\ scSock' = [scSock EXCEPT ![k] = "CLOSED"]
    /\ scLastOp' = [op |-> "closed", threw |-> FALSE]
    /\ UNCHANGED <<scWs, scPromise, scSent, scCloseCalls>>

\* chunks a caller hands to sendAudio
ApiChunks == {AudioFrame(0, ChunkSize)}

\* the caller of the client's methods is any program: every method can be
\* called in every state
\* nothing but the client takes a step
OnlyClient == UNCHANGED <<proxyVars, encVars, sfVars, rtVars, ptVars, rcVars, anVars>>

NextClient ==
    \/ Connect /\ OnlyClient
    \/ \E c \in ApiChunks : Len(scSent) < MaxSends /\ SendAudio(c) /\ OnlyClient
    \/ Len(scSent) < MaxSends /\ SendEnd /\ OnlyClient
    \/ Close /\ OnlyClient
    \/ \E k \in 1..MaxConnects : WsOnOpen(k) /\ OnlyClient
    \/ \E k \in 1..MaxConnects : WsOnError(k) /\ OnlyClient
    \/ \E k \in 1..MaxConnects : WsOnClose(k) /\ OnlyClient

InitClient ==
    /\ ProxyIdle
    /\ AnIdle
    /\ RcIdle
    /\ PtIdle
    /\ EncIdle
    /\ ScNew
    /\ SfIdle
    /\ RtIdle

SpecClient == InitClient /\ [][NextClient]_vars

\* the state of the client and its sockets, apart from the record of the
\* last call
ScState == <<scWs, scSock, scPromise, scSent, scCloseCalls>>

\* C22 as stated: every method called while the connection is not Open
\* changes nothing and does not throw.
C22_NoOpWhenNotOpen ==
    [][(scLastOp'.op \in {"sendAudio", "sendEnd", "close"} /\ ~ScIsOpen)
         => (ScState' = ScState /\ ~scLastOp'.threw)]_vars

\* C22 (amended): sendAudio and sendEnd called while the connection is not
\* Open (before it opened, after close(), after the peer closed) change
\* nothing and do not throw; close() called when this.ws is already null
\* changes nothing and does not throw; the first close() on a socket that
\* is not Open still calls ws.close() on it once and forgets it.
C22_SendsAndSecondCloseAreNoOps ==
    [][/\ (scLastOp'.op \in {"sendAudio", "sendEnd"} /\ ~ScIsOpen)
            => (ScState' = ScState /\ ~scLastOp'.threw)
       /\ (scLastOp'.op = "close" /\ scWs = 0)
            => (ScState' = ScState /\ ~scLastOp'.threw)
       /\ (scLastOp'.op = "close" /\ scWs # 0)
            => /\ scWs' = 0
               /\ scCloseCalls' = [scCloseCalls EXCEPT ![scWs] = @ + 1]
               /\ scSent' = scSent
               /\ ~scLastOp'.threw]_vars

\* C22 witness: a socket had opened and was closed by close(), nothing was
\* sent on it, and close() was the last call: a second close() ends here too
C22_Witness ==
    /\ scLastOp = [op |-> "close", threw |-> FALSE]
    /\ scWs = 0
    /\ scPromise[1] = "resolved"
    /\ scCloseCalls = [k \in 1..MaxConnects |-> IF k = 1 THEN 1 ELSE 0]
    /\ scSock[1] = "CLOSING"
    /\ scSent = <<>>

\* ---------------------------------------------------------------------------
\* PulseStreamingClient.streamFile.  Each action is the code between two
\* awaits; socket events are delivered between them.

\* readFileSync(filePath) throws
NoFile == -1

\* sizes of the file: shorter than the header, the header alone, and audio
\* data of up to MaxChunks chunks with a full or a partial last chunk
FileSizes ==
    {0, HeaderSize - 1}
      \cup {HeaderSize + k * ChunkSize + r :
              k \in 0..(MaxChunks - 1), r \in {0, 1, ChunkSize}}

\* audioData.length, audioData = audioBuffer.slice(44)
AudioLen(file) == IF file > HeaderSize THEN file - HeaderSize ELSE 0

\* audioData.slice(i, i + chunkSize): slice stops at the end of the data
ChunkAt(i, len) ==
    AudioFrame(i, IF i + ChunkSize < len THEN i + ChunkSize ELSE len)

\* await this.connect(...): the call
StreamFile_Connect ==
    /\ sfPc = "start"
    /\ Connect
    /\ sfPc' = "connecting"
    /\ UNCHANGED <<sfI, sfFile>>

\* await this.connect(...) resumes after resolve(): the file is read and
\* the loop starts
StreamFile_Connected ==
    /\ sfPc = "connecting"
    /\ scPromise[1] = "resolved"
    /\ sfPc' = IF sfFile = NoFile THEN "threw" ELSE "loop"
    /\ sfI' = 0
    /\ UNCHANGED <<sfFile, scVars>>

\* await this.connect(...) throws after reject(error)
StreamFile_ConnectFailed ==
    /\ sfPc = "connecting"
    /\ scPromise[1] = "rejected"
    /\ sfPc' = "threw"
    /\ UNCHANGED <<sfI, sfFile, scVars>>

\* Faulty variant of StreamFile_Chunk: every chunk is chunkSize bytes long
StreamFile_Chunk_FixedSize ==
    /\ sfPc = "loop"
    /\ sfI < AudioLen(sfFile)
    /\ SendAudio(AudioFrame(sfI, sfI + ChunkSize))
    /\ sfI' = sfI + ChunkSize
    /\ UNCHANGED <<sfPc, sfFile>>

\* one iteration of the loop: sendAudio(chunk), then the 50 ms pause
StreamFile_Chunk ==
    /\ sfPc = "loop"
    /\ sfI < AudioLen(sfFile)
    /\ SendAudio(ChunkAt(sfI, AudioLen(sfFile)))
    /\ sfI' = sfI + ChunkSize
    /\ UNCHANGED <<sfPc, sfFile>>

\* the loop ends: sendEnd(), then the 3000 ms pause
StreamFile_End ==
    /\ sfPc = "loop"
    /\ sfI >= AudioLen(sfFile)
    /\ SendEnd
    /\ sfPc' = "waitFinal"
    /\ UNCHANGED <<sfI, sfFile>>

\* this.close(); return transcripts
StreamFile_Close ==
    /\ sfPc = "waitFinal"
    /\ Close
    /\ sfPc' = "done"
    /\ UNCHANGED <<sfI, sfFile>>

\* the steps of streamFile
StreamFileStep ==
    /\ \/ StreamFile_Connect
       \/ StreamFile_Connected
       \/ StreamFile_ConnectFailed
       \/ StreamFile_Chunk
       \/ StreamFile_End
       \/ StreamFile_Close
    /\ UNCHANGED <<proxyVars, encVars, rtVars, ptVars, rcVars, anVars>>

\* a connecting socket opens or fails
HandshakeOutcome ==
    /\ \E k \in 1..MaxConnects :
          scSock[k] = "CONNECTING" /\ (WsOnOpen(k) \/ WsOnError(k))
    /\ OnlyClient

\* nothing but streamFile and its client takes a step
OnlyStreamFile == UNCHANGED <<proxyVars, encVars, rtVars, ptVars, rcVars, anVars>>

NextStreamFile ==
    \/ StreamFile_Connect /\ OnlyStreamFile
    \/ StreamFile_Connected /\ OnlyStreamFile
    \/ StreamFile_ConnectFailed /\ OnlyStreamFile
    \/ StreamFile_Chunk /\ OnlyStreamFile
    \/ StreamFile_End /\ OnlyStreamFile
    \/ StreamFile_Close /\ OnlyStreamFile
    \/ \E k \in 1..MaxConnects : WsOnOpen(k) /\ OnlyClient
    \/ \E k \in 1..MaxConnects : WsOnError(k) /\ OnlyClient
    \/ \E k \in 1..MaxConnects : WsOnClose(k) /\ OnlyClient

InitStreamFile ==
    /\ ProxyIdle
    /\ AnIdle
    /\ RcIdle
    /\ PtIdle
    /\ EncIdle
    /\ ScNew
    /\ sfPc = "start"
    /\ sfI = 0
    /\ sfFile \in FileSizes \cup {NoFile}
    /\ RtIdle

\* timers fire and a handshake ends one way or the other
SpecStreamFile ==
    /\ InitStreamFile
    /\ [][NextStreamFile]_vars
    /\ WF_vars(StreamFileStep)
    /\ WF_vars(HandshakeOutcome)

\* the chunks of `len` bytes of audio data in file order
NumChunks(len) == (len + ChunkSize - 1) \div ChunkSize
FileChunks(len) ==
    [j \in 1..NumChunks(len) |-> <<1, ChunkAt((j - 1) * ChunkSize, len)>>]

\* what streamFile transmits on an unbroken connection
ExpectedFrames(file) == Append(FileChunks(AudioLen(file)), <<1, EndFrame>>)

IsPrefix(a, b) == Len(a) <= Len(b) /\ a = SubSeq(b, 1, Len(a))

DefaultMaxRetries == 3   \* maxRetries: number = 3

\* the values of maxRetries
RetryLimits == (0..MaxTries) \cup {DefaultMaxRetries}

\* what the n-th call of transcribeAudioFile can do: return a result, or
\* throw an error whose message includes '401', '429', both or neither
CallOutcomes(n) ==
    {[kind |-> "result", id |-> n, has401 |-> FALSE, has429 |-> FALSE]}
      \cup {[kind |-> "error", id |-> n, has401 |-> a, has429 |-> b] :
              a \in BOOLEAN, b \in BOOLEAN}

\* new Error('Transcription failed after retries')
FailedAfterRetries == [kind |-> "error", id |-> 0, has401 |-> FALSE, has429 |-> FALSE]

RECURSIVE Pow2(_)
Pow2(n) == IF n = 0 THEN 1 ELSE 2 * Pow2(n - 1)

\* Faulty variant of IsAuthError: no error is taken for an auth error
IsAuthError_Never(error) == FALSE

\* error instanceof Error && error.message.includes('401')
IsAuthError(error) == error.has401

\* error instanceof Error && error.message.includes('429')
IsRateLimit(error) == error.has429

\* a delay of ms milliseconds awaited after the failure of attempt n
Delay(n, ms) == [after |-> n, ms |-> ms]

\* Faulty variant of Retry_Call: the loop runs while attempt <= maxRetries + 1
Retry_Call_ExtraAttempt ==
    /\ rtPc = "loop"
    /\ rtAttempt <= rtMaxRetries + 1
    /\ \E r \in CallOutcomes(rtAttempt) :
          /\ rtCalls' = Append(rtCalls, r)
          /\ IF r.kind = "result"
             THEN /\ rtPc' = "returned"
                  /\ rtOutcome' = r
                  /\ UNCHANGED <<rtAttempt, rtDelays, rtLastError>>
             ELSE /\ rtLastError' = r
                  /\ IF IsAuthError(r)
                     THEN /\ rtPc' = "threw"
                          /\ rtOutcome' = r
                          /\ UNCHANGED <<rtAttempt, rtDelays>>
                     ELSE /\ rtPc' = "loop"
                          /\ rtAttempt' = rtAttempt + 1
                          /\ UNCHANGED <<rtDelays, rtOutcome>>
    /\ UNCHANGED rtMaxRetries

\* one iteration of the loop up to its await or its end: the call of
\* transcribeAudioFile and the catch block
Retry_Call ==
    /\ rtPc = "loop"
    /\ rtAttempt <= rtMaxRetries
    /\ \E r \in CallOutcomes(rtAttempt) :
          /\ rtCalls' = Append(rtCalls, r)
          /\ IF r.kind = "result"
             THEN /\ rtPc' = "returned"
                  /\ rtOutcome' = r
                  /\ UNCHANGED <<rtAttempt, rtDelays, rtLastError>>
             ELSE /\ rtLastError' = r
                  /\ IF IsAuthError(r)
                     THEN /\ rtPc' = "threw"
                          /\ rtOutcome' = r
                          /\ UNCHANGED <<rtAttempt, rtDelays>>
                     ELSE IF IsRateLimit(r)
                     THEN /\ rtDelays' = Append(rtDelays, Delay(rtAttempt, 1000 * Pow2(rtAttempt)))
                          /\ rtPc' = "backoff"
                          /\ UNCHANGED <<rtAttempt, rtOutcome>>
                     ELSE IF rtAttempt < rtMaxRetries
                     THEN /\ rtDelays' = Append(rtDelays, Delay(rtAttempt, 500 * rtAttempt))
                          /\ rtPc' = "backoff"
                          /\ UNCHANGED <<rtAttempt, rtOutcome>>
                     ELSE /\ rtPc' = "loop"
                          /\ rtAttempt' = rtAttempt + 1
                          /\ UNCHANGED <<rtDelays, rtOutcome>>
    /\ UNCHANGED rtMaxRetries

\* the awaited timer fires: the next iteration
Retry_Resume ==
    /\ rtPc = "backoff"
    /\ rtPc' = "loop"
    /\ rtAttempt' = rtAttempt + 1
    /\ UNCHANGED <<rtMaxRetries, rtCalls, rtDelays, rtLastError, rtOutcome>>

\* the loop is over: throw lastError || new Error(...)
Retry_GiveUp ==
    /\ rtPc = "loop"
    /\ rtAttempt > rtMaxRetries
    /\ rtPc' = "threw"
    /\ rtOutcome' = IF rtLastError # Null THEN rtLastError ELSE FailedAfterRetries
    /\ UNCHANGED <<rtMaxRetries, rtAttempt, rtCalls, rtDelays, rtLastError>>

\* nothing but transcribeWithRetry takes a step
OnlyRetry == UNCHANGED <<proxyVars, encVars, scVars, sfVars, ptVars, rcVars, anVars>>

NextRetry ==
    \/ Retry_Call /\ OnlyRetry
    \/ Retry_Resume /\ OnlyRetry
    \/ Retry_GiveUp /\ OnlyRetry

\* transcribeWithRetry is called: lastError = null, attempt = 1
InitRetry ==
    /\ ProxyIdle
    /\ AnIdle
    /\ RcIdle
    /\ PtIdle
    /\ EncIdle
    /\ ScNew
    /\ SfIdle
    /\ rtMaxRetries \in RetryLimits
    /\ rtAttempt = 1
    /\ rtPc = "loop"
    /\ rtCalls = <<>>
    /\ rtDelays = <<>>
    /\ rtLastError = Null
    /\ rtOutcome = Null

\* the timers fire and the calls of transcribeAudioFile end
SpecRetry == InitRetry /\ [][NextRetry]_vars /\ WF_vars(NextRetry)

\* the call has ended
RetryEnded == rtPc \in {"returned", "threw"}

\* C24: at most maxRetries calls of transcribeAudioFile are made; a call
\* that returns a result is the last call and its result is returned; when
\* every call made has failed, transcribeWithRetry ends by throwing the
\* error of the last call.
C24_BoundedAttemptsFirstSuccessLastError ==
    /\ [](/\ Len(rtCalls) <= rtMaxRetries
          /\ \A j \in 1..Len(rtCalls) :
                rtCalls[j].kind = "result"
                  => (j = Len(rtCalls) /\ rtPc = "returned" /\ rtOutcome = rtCalls[j])
          /\ rtPc = "returned" => rtOutcome.kind = "result"
          /\ (rtPc = "threw" /\ rtCalls # <<>>)
                => rtOutcome = rtCalls[Len(rtCalls)])
    /\ [][RetryEnded => UNCHANGED rtVars]_vars
    /\ <>RetryEnded

\* C24 witness: with the default maxRetries two calls failed and the third
\* returned the result
C24_Witness ==
    /\ rtMaxRetries = DefaultMaxRetries
    /\ Len(rtCalls) = 3
    /\ rtCalls[1].kind = "error" /\ rtCalls[2].kind = "error"
    /\ rtPc = "returned"
    /\ rtOutcome = rtCalls[3]

\* C25: a call that fails with a 401 error is the last call, its error is
\* what transcribeWithRetry throws, and no delay follows it.
C25_AuthErrorNotRetried ==
    \A j \in 1..Len(rtCalls) :
        (rtCalls[j].kind = "error" /\ rtCalls[j].has401)
          => /\ j = Len(rtCalls)
             /\ rtPc = "threw"
             /\ rtOutcome = rtCalls[j]
             /\ \A d \in 1..Len(rtDelays) : rtDelays[d].after < j

\* C25 witness: the first of three permitted calls failed with a 401 error
\* and transcribeWithRetry threw it
C25_Witness ==
    /\ rtMaxRetries = DefaultMaxRetries
    /\ Len(rtCalls) = 1
    /\ rtCalls[1].kind = "error" /\ rtCalls[1].has401 /\ ~rtCalls[1].has429
    /\ rtPc = "threw"
    /\ rtDelays = <<>>

\* C26 as stated: no delay is awaited after the failure of the last
\* permitted attempt.
C26_NoDelayAfterLastAttempt ==
    \A d \in 1..Len(rtDelays) : rtDelays[d].after < rtMaxRetries

\* ---------------------------------------------------------------------------
\* The REST handler POST of demo-app/src/app/api/transcribe/route.ts.
\* An action is the code between two awaits.

\* process.env.SMALLEST_API_KEY: not set, set to the empty string, or a key
PostKeys == {Absent, "", "sk_live_key"}

\* formData.get('audio'): null, an empty or a non-empty string field, or a
\* File with or without a MIME type
AudioFields ==
    {[kind |-> "null", type |-> ""], [kind |-> "string", type |-> ""],
     [kind |-> "text", type |-> ""],
     [kind |-> "file", type |-> ""], [kind |-> "file", type |-> "audio/mpeg"]}

\* the requests: a body that is no form data, or the fields audio and language
Forms ==
    {Unreadable}
      \cup [readable : {TRUE}, audio : AudioFields, language : {Absent, "", "hi"}]

\* HTTP status codes of the vendor API
VendorStatuses == {200, 401, 429, 500}

\* what the await of fetch gives: a thrown error, or a response with a
\* status whose body can be read or fails to be read or parsed
VendorAnswers ==
    {[kind |-> "threw", status |-> 0, readable |-> FALSE]}
      \cup [kind : {"response"}, status : VendorStatuses, readable : BOOLEAN]

\* NextResponse.json({ error }, { status }); `code` is the number the error
\* text ends with, 0 when it has none
JsonResponse(error, code, status) ==
    [body |-> [error |-> error, code |-> code], status |-> status]

\* the catch block
InternalError == JsonResponse("Internal server error", 0, 500)

\* !value of JavaScript for the values the handler tests
Falsy(v) == v \in {Absent, ""}

\* lines 4-14: the key is read and tested, request.formData() is awaited
Post_Start ==
    /\ ptPc = "start"
    /\ IF Falsy(ptKey)
       THEN /\ ptResponses' = Append(ptResponses,
                                JsonResponse("SMALLEST_API_KEY not configured", 0, 500))
            /\ ptPc' = "done"
       ELSE /\ ptPc' = "formData"
            /\ UNCHANGED ptResponses
    /\ UNCHANGED <<ptKey, ptForm, ptFetches, ptVendor, ptThrown>>

\* Faulty variant of Post_CheckFile: the test of `file` is missing
Post_CheckFile_NoFileCheck ==
    /\ ptPc = "formData"
    /\ IF ~ptForm.readable
       THEN /\ ptThrown' = TRUE
            /\ ptResponses' = Append(ptResponses, InternalError)
            /\ ptPc' = "done"
       ELSE IF ptForm.audio.kind # "file"
       THEN /\ ptThrown' = TRUE
            /\ ptResponses' = Append(ptResponses, InternalError)
            /\ ptPc' = "done"
       ELSE /\ ptPc' = "arrayBuffer"
            /\ UNCHANGED <<ptResponses, ptThrown>>
    /\ UNCHANGED <<ptKey, ptForm, ptFetches, ptVendor>>

\* lines 14-26: the form data arrive (or the await throws), `file` is
\* tested, file.arrayBuffer() is called, which throws on a string
Post_CheckFile ==
    /\ ptPc = "formData"
    /\ IF ~ptForm.readable
       THEN /\ ptThrown' = TRUE
            /\ ptResponses' = Append(ptResponses, InternalError)
            /\ ptPc' = "done"
       ELSE IF ptForm.audio.kind \in {"null", "string"}
       THEN /\ ptResponses' = Append(ptResponses,
                                JsonResponse("No audio file provided", 0, 400))
            /\ ptPc' = "done"
            /\ UNCHANGED ptThrown
       ELSE IF ptForm.audio.kind = "text"
       THEN /\ ptThrown' = TRUE
            /\ ptResponses' = Append(ptResponses, InternalError)
            /\ ptPc' = "done"
       ELSE /\ ptPc' = "arrayBuffer"
            /\ UNCHANGED <<ptResponses, ptThrown>>
    /\ UNCHANGED <<ptKey, ptForm, ptFetches, ptVendor>>

\* lines 26-47: the buffer is there, the vendor API is called
Post_Fetch ==
    /\ ptPc = "arrayBuffer"
    /\ ptFetches' = Append(ptFetches,
          [authorization |-> ptKey,
           language |-> IF Falsy(ptForm.language) THEN "en" ELSE ptForm.language,
           contentType |-> IF ptForm.audio.type = "" THEN "audio/wav"
                           ELSE ptForm.audio.type])
    /\ ptPc' = "fetch"
    /\ UNCHANGED <<ptKey, ptForm, ptVendor, ptThrown, ptResponses>>

\* lines 37-58: fetch settles; response.ok is tested and the body is awaited
Post_VendorAnswered ==
    /\ ptPc = "fetch"
    /\ \E a \in VendorAnswers :
          /\ ptVendor' = a
          /\ IF a.kind = "threw"
             THEN /\ ptThrown' = TRUE
                  /\ ptResponses' = Append(ptResponses, InternalError)
                  /\ ptPc' = "done"
             ELSE /\ ptPc' = "body"
                  /\ UNCHANGED <<ptThrown, ptResponses>>
    /\ UNCHANGED <<ptKey, ptForm, ptFetches>>

\* lines 49-59: response.text() or response.json() settles
Post_BodyRead ==
    /\ ptPc = "body"
    /\ IF ~ptVendor.readable
       THEN /\ ptThrown' = TRUE
            /\ ptResponses' = Append(ptResponses, InternalError)
       ELSE /\ ptResponses' = Append(ptResponses,
                IF ptVendor.status \in 200..299
                THEN [body |-> [result |-> "transcript"], status |-> 200]
                ELSE JsonResponse("Transcription failed", ptVendor.status,
                                  ptVendor.status))
            /\ UNCHANGED ptThrown
    /\ ptPc' = "done"
    /\ UNCHANGED <<ptKey, ptForm, ptFetches, ptVendor>>

\* nothing but the handler takes a step
OnlyPost == UNCHANGED <<proxyVars, encVars, scVars, sfVars, rtVars, rcVars, anVars>>

NextPost ==
    \/ Post_Start /\ OnlyPost
    \/ Post_CheckFile /\ OnlyPost
    \/ Post_Fetch /\ OnlyPost
    \/ Post_VendorAnswered /\ OnlyPost
    \/ Post_BodyRead /\ OnlyPost

\* a request arrives
InitPost ==
    /\ ProxyIdle
    /\ AnIdle
    /\ RcIdle
    /\ EncIdle
    /\ ScNew
    /\ SfIdle
    /\ RtIdle
    /\ ptKey \in PostKeys
    /\ ptForm \in Forms
    /\ ptPc = "start"
    /\ ptFetches = <<>>
    /\ ptVendor = Null
    /\ ptThrown = FALSE
    /\ ptResponses = <<>>

\* every awaited promise settles
SpecPost == InitPost /\ [][NextPost]_vars /\ WF_vars(NextPost)

\* the response of a finished request
PostResponse == ptResponses[1]

\* C27: a request gets exactly one response (none before the handler ends,
\* one when it has ended, and it ends); the vendor API is called at most
\* once and only with a configured key and an audio file; a missing key
\* gives status 500, a missing file status 400, a vendor response that is
\* not OK and whose body was read gives the vendor's status in the status
\* and in the error body, and a thrown exception gives status 500.
C27_OneResponsePerRequest ==
    /\ [](/\ Len(ptResponses) = (IF ptPc = "done" THEN 1 ELSE 0)
          /\ Len(ptFetches) <= 1
          /\ ptFetches # <<>> =>
                /\ ~Falsy(ptKey)
                /\ ptForm.readable
                /\ ptForm.audio.kind = "file"
                /\ ptFetches[1].authorization = ptKey
          /\ ptPc = "done" =>
                /\ Falsy(ptKey) => (PostResponse.status = 500 /\ ptFetches = <<>>)
                /\ (~Falsy(ptKey) /\ ptForm.readable
                      /\ ptForm.audio.kind \in {"null", "string"})
                     => (PostResponse.status = 400 /\ ptFetches = <<>>)
                /\ ptThrown => PostResponse.status = 500
                /\ (~ptThrown /\ ptVendor # Null /\ ptVendor.status \notin 200..299)
                     => /\ PostResponse.status = ptVendor.status
                        /\ PostResponse.body.code = ptVendor.status)
    /\ <>(ptPc = "done")

\* C27 witness: the vendor answered 429 to an uploaded file and the handler
\* answered 429
C27_Witness ==
    /\ ptPc = "done"
    /\ Len(ptFetches) = 1
    /\ ptVendor = [kind |-> "response", status |-> 429, readable |-> TRUE]
    /\ ptResponses = <<JsonResponse("Transcription failed", 429, 429)>>

\* ---------------------------------------------------------------------------
\* The real-time tab of the demo app: startRecording, the handlers it
\* installs on its socket, and stopRecording (page.tsx).  Each call of
\* startRecording has a number n; its stream, socket, audio context and
\* processor carry the same number.  A socket is "CONNECTING", "OPEN",
\* "ABORTING" (closed before it opened: error and close events pending),
\* "CLOSING" (close event pending) or "CLOSED" (close event delivered).

\* the number of startRecording calls made
StartsMade == Cardinality({n \in 1..MaxStarts : rcPc[n] # "none"})

\* the button runs startRecording when isRecording is false: the call up
\* to await getUserMedia(...)
StartRecording ==
    /\ ~rcIsRecording
    /\ StartsMade < MaxStarts
    /\ rcPc' = [rcPc EXCEPT ![StartsMade + 1] = "getUserMedia"]
    /\ UNCHANGED <<rcIsRecording, rcWsRef, rcStreamRef, rcProcessorRef,
                   rcAudioContextRef, rcSock, rcLive>>

\* getUserMedia resolves: streamRef and wsRef are set, the handlers installed
MicGranted(n) ==
    /\ rcPc[n] = "getUserMedia"
    /\ rcPc' = [rcPc EXCEPT ![n] = "installed"]
    /\ rcLive' = [rcLive EXCEPT ![n].stream = TRUE]
    /\ rcStreamRef' = n
    /\ rcSock' = [rcSock EXCEPT ![n] = "CONNECTING"]
    /\ rcWsRef' = n
    /\ UNCHANGED <<rcIsRecording, rcProcessorRef, rcAudioContextRef>>

\* getUserMedia rejects: the catch block sets the error text
MicDenied(n) ==
    /\ rcPc[n] = "getUserMedia"
    /\ rcPc' = [rcPc EXCEPT ![n] = "denied"]
    /\ UNCHANGED <<rcIsRecording, rcWsRef, rcStreamRef, rcProcessorRef,
                   rcAudioContextRef, rcSock, rcLive>>

\* ws.onopen of socket n: isRecording, a new audio context and processor
RcOnOpen(n) ==
    /\ rcSock[n] = "CONNECTING"
    /\ rcSock' = [rcSock EXCEPT ![n] = "OPEN"]
    /\ rcIsRecording' = TRUE
    /\ rcAudioContextRef' = n
    /\ rcProcessorRef' = n
    /\ rcLive' = [rcLive EXCEPT ![n].context = TRUE, ![n].processor = TRUE]
    /\ UNCHANGED <<rcWsRef, rcStreamRef, rcPc>>

\* readyState after wsRef.current.close()
RcCloseState(st) ==
    IF st = "CONNECTING" THEN "ABORTING" ELSE IF st = "OPEN" THEN "CLOSING" ELSE st

\* the body of stopRecording on the socket states `sock`
StopRecordingFrom(sock) ==
    /\ rcIsRecording' = FALSE
    /\ rcSock' = IF rcWsRef # 0
                 THEN [sock EXCEPT ![rcWsRef] = RcCloseState(@)] ELSE sock
    /\ rcWsRef' = 0
    /\ rcLive' = [n \in 1..MaxStarts |->
                    [stream    |-> rcLive[n].stream /\ n # rcStreamRef,
                     processor |-> rcLive[n].processor /\ n # rcProcessorRef,
                     context   |-> rcLive[n].context /\ n # rcAudioContextRef]]
    /\ rcProcessorRef' = 0
    /\ rcAudioContextRef' = 0
    /\ rcStreamRef' = 0
    /\ UNCHANGED rcPc

\* the button runs stopRecording when isRecording is true
StopRecording ==
    /\ rcIsRecording
    /\ StopRecordingFrom(rcSock)

\* ws.onerror of socket n: the error text is set and stopRecording() runs;
\* the socket's close event follows
RcOnError(n) ==
    /\ rcSock[n] \in {"CONNECTING", "OPEN", "ABORTING"}
    /\ StopRecordingFrom([rcSock EXCEPT ![n] = "CLOSING"])

\* ws.onclose of socket n: setIsRecording(false)
RcOnClose(n) ==
    /\ rcSock[n] \in {"OPEN", "CLOSING"}
    /\ rcSock' = [rcSock EXCEPT ![n] = "CLOSED"]
    /\ rcIsRecording' = FALSE
    /\ UNCHANGED <<rcWsRef, rcStreamRef, rcProcessorRef, rcAudioContextRef,
                   rcLive, rcPc>>

\* nothing but the real-time tab takes a step
OnlyRecording == UNCHANGED <<proxyVars, encVars, scVars, sfVars, rtVars, ptVars, anVars>>

NextRecording ==
    \/ StartRecording /\ OnlyRecording
    \/ \E n \in 1..MaxStarts : MicGranted(n) /\ OnlyRecording
    \/ \E n \in 1..MaxStarts : MicDenied(n) /\ OnlyRecording
    \/ \E n \in 1..MaxStarts : RcOnOpen(n) /\ OnlyRecording
    \/ StopRecording /\ OnlyRecording
    \/ \E n \in 1..MaxStarts : RcOnError(n) /\ OnlyRecording
    \/ \E n \in 1..MaxStarts : RcOnClose(n) /\ OnlyRecording

InitRecording ==
    /\ ProxyIdle
    /\ AnIdle
    /\ EncIdle
    /\ ScNew
    /\ SfIdle
    /\ RtIdle
    /\ PtIdle
    /\ RcIdle

SpecRecording == InitRecording /\ [][NextRecording]_vars

\* the session of call n has ended: its socket was closed or is closing
SessionEnded(n) == rcSock[n] \in {"ABORTING", "CLOSING", "CLOSED"}

\* a capture of call n is live: its microphone tracks are not stopped, its
\* processor is connected or its audio context is not closed
CaptureLive(n) == rcLive[n].stream \/ rcLive[n].processor \/ rcLive[n].context

\* C28 as stated: whenever isRecording is false, no session that has ended
\* has a live microphone stream, processor or audio context.
C28_EndedSessionReleasesCapture ==
    ~rcIsRecording => \A n \in 1..MaxStarts : SessionEnded(n) => ~CaptureLive(n)

\* the state of the session that wsRef.current belongs to
CurrentSession ==
    <<rcIsRecording, rcWsRef, rcStreamRef, rcProcessorRef, rcAudioContextRef,
      rcSock[rcWsRef], rcLive[rcWsRef]>>

\* C29 as stated: the close event of a socket that was closed by
\* stopRecording, delivered after a later startRecording call has set
\* wsRef, leaves the recording flag, the socket and the microphone pipeline
\* of the current session unchanged.
C29_LateCloseLeavesNewSession ==
    [][\A n \in 1..MaxStarts :
          (rcSock[n] = "CLOSING" /\ rcSock'[n] = "CLOSED"
             /\ rcWsRef # 0 /\ rcWsRef > n)
          => CurrentSession' = CurrentSession]_vars

\* ---------------------------------------------------------------------------
\* The emotion analyzer front end (emotion-analyzer/frontend/app.js): the
\* file picker, the Analyze button and runAnalysis.  An action is an event
\* handler or the code of runAnalysis between two awaits.

\* the files a user can pick
AnFiles == {1, 2}

\* the number of runAnalysis calls that reached fetch
RequestsMade == Cardinality({r \in 1..MaxRequests : anRequests[r] # "none"})

\* pickFile(file): a drop on the upload area or a change of the file input
PickFile(file) ==
    /\ anSelectedFile' = file
    /\ anBtnDisabled' = FALSE
    /\ UNCHANGED <<anRequests, anAnalysisData, anShown>>

\* clearFile(): a click on the remove button
ClearFile ==
    /\ anSelectedFile' = 0
    /\ anBtnDisabled' = TRUE
    /\ UNCHANGED <<anRequests, anAnalysisData, anShown>>

\* a click on the Analyze button, which a disabled button does not deliver:
\* runAnalysis up to await fetch(...)
RunAnalysis ==
    /\ ~anBtnDisabled
    /\ IF anSelectedFile = 0
       THEN UNCHANGED anVars
       ELSE /\ RequestsMade < MaxRequests
            /\ anBtnDisabled' = TRUE
            /\ anAnalysisData' = 0
            /\ anRequests' = [anRequests EXCEPT ![RequestsMade + 1] = "inflight"]
            /\ UNCHANGED <<anSelectedFile, anShown>>

\* the response of request r is OK and parses: analysisData is set and
\* populateResults is scheduled 300 ms later
FetchSucceeded(r) ==
    /\ anRequests[r] = "inflight"
    /\ anRequests' = [anRequests EXCEPT ![r] = "rendering"]
    /\ anAnalysisData' = r
    /\ UNCHANGED <<anSelectedFile, anBtnDisabled, anShown>>

\* fetch, resp.json() or the resp.ok test of request r throws: the catch
\* block shows the error and enables the button
FetchFailed(r) ==
    /\ anRequests[r] = "inflight"
    /\ anRequests' = [anRequests EXCEPT ![r] = "failed"]
    /\ anBtnDisabled' = FALSE
    /\ UNCHANGED <<anSelectedFile, anAnalysisData, anShown>>

\* the timer of request r fires: populateResults(analysisData), which
\* throws at data.speakers when analysisData is null
PopulateResults(r) ==
    /\ anRequests[r] = "rendering"
    /\ IF anAnalysisData = 0
       THEN /\ anRequests' = [anRequests EXCEPT ![r] = "threw"]
            /\ UNCHANGED <<anBtnDisabled, anShown>>
       ELSE /\ anRequests' = [anRequests EXCEPT ![r] = "shown"]
            /\ anShown' = anAnalysisData
            /\ anBtnDisabled' = FALSE
    /\ UNCHANGED <<anSelectedFile, anAnalysisData>>

\* nothing but the emotion analyzer takes a step
OnlyAnalyzer ==
    UNCHANGED <<proxyVars, encVars, scVars, sfVars, rtVars, ptVars, rcVars>>

NextAnalyzer ==
    \/ \E f \in AnFiles : PickFile(f) /\ OnlyAnalyzer
    \/ ClearFile /\ OnlyAnalyzer
    \/ RunAnalysis /\ OnlyAnalyzer
    \/ \E r \in 1..MaxRequests : FetchSucceeded(r) /\ OnlyAnalyzer
    \/ \E r \in 1..MaxRequests : FetchFailed(r) /\ OnlyAnalyzer
    \/ \E r \in 1..MaxRequests : PopulateResults(r) /\ OnlyAnalyzer

InitAnalyzer ==
    /\ ProxyIdle
    /\ EncIdle
    /\ ScNew
    /\ SfIdle
    /\ RtIdle
    /\ PtIdle
    /\ RcIdle
    /\ AnIdle

SpecAnalyzer == InitAnalyzer /\ [][NextAnalyzer]_vars

\* the analyses that have started and whose results are not yet shown nor
\* their error reported
AnalysesRunning == {r \in 1..MaxRequests : anRequests[r] \in {"inflight", "rendering"}}

\* the requests waiting for the server's response
InFlight == {r \in 1..MaxRequests : anRequests[r] = "inflight"}

\* C30 as stated: at most one request is in flight; the Analyze button is
\* disabled while an analysis is running; and when the button is enabled a
\* file is selected.
C30_OneAnalysisAtATime ==
    /\ Cardinality(InFlight) <= 1
    /\ AnalysesRunning # {} => anBtnDisabled
    /\ ~anBtnDisabled => anSelectedFile # 0
====
